---- MODULE Spec2Model ----
(***************************************************************************)
(* Job admission and execution pipeline of the pose service.               *)
(*                                                                         *)
(* Two entry points of the repository accept "process this video":         *)
(*   - flask_wrapper_minimal_safe.py, POST /pose/video: a GPU-busy flag, a *)
(*     lock, a deque of queued requests and the active_jobs registry       *)
(*     (specification SpecFW);                                             *)
(*   - app.py, POST /process_video_async: the video_jobs registry and one  *)
(*     background thread per job that runs track.py through                *)
(*     track_wrapper.py (specification SpecApp).                           *)
(* Each is modelled statement by statement where another thread can        *)
(* observe the state in between.                                           *)
(***************************************************************************)
EXTENDS Integers, Sequences, FiniteSets, TLC

\* Number of POST /pose/video requests a behaviour may contain.
MaxReq == 4

\* Number of POST /process_video_async submissions a behaviour may contain.
MaxJobs == 3

\* Number of lines track.py may write in one run.
MaxLines == 3

\* Number of frames of an output artifact, and of person records of a frame.
MaxFrames == 2
MaxPersons == 2

Req == 1..MaxReq
JobIds == 1..MaxReq
AppJobs == 1..MaxJobs

\* Value of a lock nobody holds / of a handler serving nobody.
Free == 0

VARIABLES
    \* ---- flask_wrapper_minimal_safe.py
    subprocess_running, \* the GPU-busy flag
    subprocess_lock,    \* Free, or the request whose thread holds the lock
    request_queue,      \* deque of queued job ids
    active_jobs,        \* job id -> "absent" | "queued" | "processing"
    pc,                 \* position of each request's handler thread
    worker,             \* state of the track.py run made for each request
    outcome,            \* what process_video_subprocess found for the request
    resp,               \* HTTP status returned to the caller, "none" before
    returned_ids,       \* history: the job ids the answers have carried
    queuedOrder,        \* history: job ids in the order they were queued
    admitOrder,         \* history: job ids in the order they left the queue
    \* ---- app.py and track_wrapper.py
    video_jobs,         \* job id -> [status, result, error]
    handler,            \* Free, or the job whose submission is being answered
    jpc,                \* position of each job's background thread
    jworker,            \* state of the track.py run made for each job
    jlocal,             \* the thread's local: the value returned or the exception raised
    jresp,              \* whether the submission has been answered
    polled,             \* the last answer of GET /job_status
    \* ---- one orchestrator run, one output stream, one artifact (SpecOrch,
    \* ---- SpecStream, SpecParse, SpecPerson); "idle" in the other specifications
    run,                \* a single run of the orchestrator with its inputs
    stream,             \* track.py's output stream and the per-job log
    parse,              \* an output artifact and what the parsers make of it
    person,             \* one person record and what the parsers make of it
    \* ---- further single-purpose state (SpecFrame, SpecCam, SpecMesh, SpecProj,
    \* ---- SpecStore, SpecIds, SpecSafe); "idle" in the other specifications
    conv,               \* one frame of an artifact and the record made of it
    calc,               \* one evaluation of a geometry function
    store,              \* the output locations and the jobs that read them
    ids,                \* job ids as they are drawn and registered
    safe                \* run_safe.py: the crash-recovery loop

fwVars == <<subprocess_running, subprocess_lock, request_queue, active_jobs,
            pc, worker, outcome, resp, returned_ids, queuedOrder, admitOrder>>
appVars == <<video_jobs, handler, jpc, jworker, jlocal, jresp, polled>>
auxVars == <<run, stream, parse, person>>
moreVars == <<conv, calc, store, ids, safe>>
vars == <<subprocess_running, subprocess_lock, request_queue, active_jobs,
          pc, worker, outcome, resp, returned_ids, queuedOrder, admitOrder,
          video_jobs, handler, jpc, jworker, jlocal, jresp, polled,
          run, stream, parse, person, conv, calc, store, ids, safe>>

\* A track.py run that holds the GPU: spawned and neither exited nor killed.
InFlight(w) == w \in {"running", "hung"}

---------------------------------------------------------------------------
\* flask_wrapper_minimal_safe.py

\* str(uuid.uuid4()), taken to return an id no job of the registry has (whether
\* ids are distinct is the subject of C29); the smallest unused one stands for it.
uuid4(used) == CHOOSE i \in JobIds : i \notin used /\ \A k \in JobIds \ used : i <= k

RegisteredFW == {j \in JobIds : active_jobs[j] # "absent"}

\* The ids uuid4 has returned so far: to pose_video for a queued request, to
\* process_video_subprocess for a request it runs.
IssuedFW == RegisteredFW \cup returned_ids

InitFW ==
    /\ subprocess_running = FALSE
    /\ subprocess_lock = Free
    /\ request_queue = <<>>
    /\ active_jobs = [j \in JobIds |-> "absent"]
    /\ pc = [r \in Req |-> "start"]
    /\ worker = [r \in Req |-> "none"]
    /\ outcome = [r \in Req |-> "none"]
    /\ resp = [r \in Req |-> "none"]
    /\ returned_ids = {}
    /\ queuedOrder = <<>>
    /\ admitOrder = <<>>

\* pose_video, up to the lock: the request is parsed and the video file must exist.
PoseVideoValidate(r) ==
    /\ pc[r] = "start"
    /\ \E exists \in BOOLEAN :
        IF exists
        THEN /\ pc' = [pc EXCEPT ![r] = "acquire"]
             /\ resp' = resp
        ELSE /\ pc' = [pc EXCEPT ![r] = "done"]
             /\ resp' = [resp EXCEPT ![r] = "400"]
    /\ UNCHANGED <<appVars, auxVars, moreVars>>
    /\ UNCHANGED returned_ids
    /\ UNCHANGED <<subprocess_running, subprocess_lock, request_queue, active_jobs,
                   worker, outcome, queuedOrder, admitOrder>>

\* with subprocess_lock: (entry of the first critical section)
AcquireLock(r) ==
    /\ pc[r] = "acquire"
    /\ subprocess_lock = Free
    /\ subprocess_lock' = r
    /\ pc' = [pc EXCEPT ![r] = "locked"]
    /\ UNCHANGED <<appVars, auxVars, moreVars>>
    /\ UNCHANGED returned_ids
    /\ UNCHANGED <<subprocess_running, request_queue, active_jobs, worker, outcome,
                   resp, queuedOrder, admitOrder>>

\* Variant of QueueRequest: request_queue.appendleft(...) instead of append(...).
QueueRequestAtHead(r) ==
    /\ pc[r] = "locked"
    /\ subprocess_lock = r
    /\ subprocess_running
    /\ LET job_id == uuid4(IssuedFW) IN
        /\ request_queue' = <<job_id>> \o request_queue
        /\ active_jobs' = [active_jobs EXCEPT ![job_id] = "queued"]
        /\ queuedOrder' = Append(queuedOrder, job_id)
        /\ returned_ids' = returned_ids \cup {job_id}
    /\ resp' = [resp EXCEPT ![r] = "202"]
    /\ subprocess_lock' = Free
    /\ pc' = [pc EXCEPT ![r] = "done"]
    /\ UNCHANGED <<appVars, auxVars, moreVars>>
    /\ UNCHANGED <<subprocess_running, worker, outcome, admitOrder>>

\* GPU busy: the request is queued, registered as 'queued' and answered 202.
QueueRequest(r) ==
    /\ pc[r] = "locked"
    /\ subprocess_lock = r
    /\ subprocess_running
    /\ LET job_id == uuid4(IssuedFW) IN
        /\ request_queue' = Append(request_queue, job_id)
        /\ active_jobs' = [active_jobs EXCEPT ![job_id] = "queued"]
        /\ queuedOrder' = Append(queuedOrder, job_id)
        /\ returned_ids' = returned_ids \cup {job_id}
    /\ resp' = [resp EXCEPT ![r] = "202"]
    /\ subprocess_lock' = Free
    /\ pc' = [pc EXCEPT ![r] = "done"]
    /\ UNCHANGED <<appVars, auxVars, moreVars>>
    /\ UNCHANGED <<subprocess_running, worker, outcome, admitOrder>>

\* Variant of AdmitRequest: the critical section is not left before the run.
AdmitRequestHoldingLock(r) ==
    /\ pc[r] = "locked"
    /\ subprocess_lock = r
    /\ ~subprocess_running
    /\ subprocess_running' = TRUE
    /\ subprocess_lock' = r
    /\ pc' = [pc EXCEPT ![r] = "process"]
    /\ UNCHANGED <<appVars, auxVars, moreVars>>
    /\ UNCHANGED returned_ids
    /\ UNCHANGED <<request_queue, active_jobs, worker, outcome, resp,
                   queuedOrder, admitOrder>>

\* GPU free: mark it busy and leave the critical section.
AdmitRequest(r) ==
    /\ pc[r] = "locked"
    /\ subprocess_lock = r
    /\ ~subprocess_running
    /\ subprocess_running' = TRUE
    /\ subprocess_lock' = Free
    /\ pc' = [pc EXCEPT ![r] = "process"]
    /\ UNCHANGED <<appVars, auxVars, moreVars>>
    /\ UNCHANGED returned_ids
    /\ UNCHANGED <<request_queue, active_jobs, worker, outcome, resp,
                   queuedOrder, admitOrder>>

\* process_video_subprocess: subprocess.run(...) starts track.py and waits for it.
SpawnWorker(r) ==
    /\ pc[r] = "process"
    /\ UNCHANGED returned_ids
    /\ worker' = [worker EXCEPT ![r] = "running"]
    /\ pc' = [pc EXCEPT ![r] = "wait"]
    /\ UNCHANGED <<appVars, auxVars, moreVars>>
    /\ UNCHANGED <<subprocess_running, subprocess_lock, request_queue, active_jobs,
                   outcome, resp, queuedOrder, admitOrder>>

\* What process_video_subprocess reports for an exit code and what it finds after.
ExitOutcomes(code) ==
    IF code # 0 THEN {"nonzero_exit"}
    ELSE {"success", "no_output", "parse_error"}

\* track.py exits by itself; the handler classifies the run.
WorkerExit(r) ==
    /\ pc[r] = "wait"
    /\ worker[r] = "running"
    /\ \E code \in {0, 1} : \E o \in ExitOutcomes(code) :
        /\ worker' = [worker EXCEPT ![r] = "exited"]
        /\ outcome' = [outcome EXCEPT ![r] = o]
    /\ pc' = [pc EXCEPT ![r] = "finally"]
    /\ UNCHANGED <<appVars, auxVars, moreVars>>
    /\ UNCHANGED returned_ids
    /\ UNCHANGED <<subprocess_running, subprocess_lock, request_queue, active_jobs,
                   resp, queuedOrder, admitOrder>>

\* track.py stops making progress: it will never exit by itself.
WorkerHang(r) ==
    /\ worker[r] = "running"
    /\ worker' = [worker EXCEPT ![r] = "hung"]
    /\ UNCHANGED <<appVars, auxVars, moreVars>>
    /\ UNCHANGED returned_ids
    /\ UNCHANGED <<subprocess_running, subprocess_lock, request_queue, active_jobs,
                   pc, outcome, resp, queuedOrder, admitOrder>>

\* subprocess.run(timeout=POSE_TIMEOUT_MS/1000) kills the child and raises
\* TimeoutExpired, which process_video_subprocess turns into a 500 answer.
WorkerTimeout(r) ==
    /\ pc[r] = "wait"
    /\ worker[r] = "hung"
    /\ worker' = [worker EXCEPT ![r] = "killed"]
    /\ outcome' = [outcome EXCEPT ![r] = "timeout"]
    /\ pc' = [pc EXCEPT ![r] = "finally"]
    /\ UNCHANGED <<appVars, auxVars, moreVars>>
    /\ UNCHANGED returned_ids
    /\ UNCHANGED <<subprocess_running, subprocess_lock, request_queue, active_jobs,
                   resp, queuedOrder, admitOrder>>

\* finally: with subprocess_lock: (entry of the second critical section)
FinallyAcquire(r) ==
    /\ pc[r] = "finally"
    /\ subprocess_lock = Free
    /\ subprocess_lock' = r
    /\ pc' = [pc EXCEPT ![r] = "finlocked"]
    /\ UNCHANGED <<appVars, auxVars, moreVars>>
    /\ UNCHANGED returned_ids
    /\ UNCHANGED <<subprocess_running, request_queue, active_jobs, worker, outcome,
                   resp, queuedOrder, admitOrder>>

\* Variant of PopLeft: request_queue.pop(), which takes the newest entry.
PopRight(q) == <<q[Len(q)], SubSeq(q, 1, Len(q) - 1)>>

\* request_queue.popleft(): the job taken and the queue left.
PopLeft(q) == <<Head(q), Tail(q)>>

\* HTTP status of the answer built by process_video_subprocess.
StatusCode(o) == IF o = "success" THEN "200" ELSE "500"

\* The body of the finally block: free the GPU, take the head of the queue and
\* mark it 'processing' (nothing is started for it), release the lock; then the
\* answer of process_video_subprocess is returned to the caller. It carries the
\* job id the function made for itself (job_id = str(uuid.uuid4())), which it
\* stored nowhere.
FinallyRelease(r) ==
    /\ pc[r] = "finlocked"
    /\ subprocess_lock = r
    /\ subprocess_running' = FALSE
    /\ IF request_queue # <<>>
       THEN LET next_request == PopLeft(request_queue)[1] IN
            /\ request_queue' = PopLeft(request_queue)[2]
            /\ active_jobs' = [active_jobs EXCEPT ![next_request] = "processing"]
            /\ admitOrder' = Append(admitOrder, next_request)
       ELSE UNCHANGED <<request_queue, active_jobs, admitOrder>>
    /\ subprocess_lock' = Free
    /\ resp' = [resp EXCEPT ![r] = StatusCode(outcome[r])]
    /\ returned_ids' = returned_ids \cup {uuid4(IssuedFW)}
    /\ pc' = [pc EXCEPT ![r] = "done"]
    /\ UNCHANGED <<appVars, auxVars, moreVars>>
    /\ UNCHANGED <<worker, outcome, queuedOrder>>

\* GET /pose/video/status/<job_id>: the status code of the answer.
PoseVideoStatus(id) == IF active_jobs[id] = "absent" THEN "404" ELSE "200"

NextFW ==
    \E r \in Req :
        \/ PoseVideoValidate(r)
        \/ AcquireLock(r)
        \/ QueueRequest(r)
        \/ AdmitRequest(r)
        \/ SpawnWorker(r)
        \/ WorkerExit(r)
        \/ WorkerHang(r)
        \/ WorkerTimeout(r)
        \/ FinallyAcquire(r)
        \/ FinallyRelease(r)

---------------------------------------------------------------------------
\* app.py and track_wrapper.py

NoJob == [status |-> "absent", result |-> "none", error |-> "none"]
NoAnswer == [job |-> Free, status |-> "none", result |-> "none", error |-> "none"]

InitApp ==
    /\ video_jobs = [j \in AppJobs |-> NoJob]
    /\ handler = Free
    /\ jpc = [j \in AppJobs |-> "unborn"]
    /\ jworker = [j \in AppJobs |-> "none"]
    /\ jlocal = [j \in AppJobs |-> "none"]
    /\ jresp = [j \in AppJobs |-> FALSE]
    /\ polled = NoAnswer

\* str(uuid.uuid4())[:8], taken to return an id no job of the registry has
\* (whether ids are distinct is the subject of C29).
NewJobId == CHOOSE j \in AppJobs : jpc[j] = "unborn" /\ \A k \in AppJobs : jpc[k] = "unborn" => j <= k

\* process_video_async_endpoint: the upload is saved, the job is registered as
\* 'queued' and its background thread is started. The server is run with
\* threaded=False, so one request is handled at a time.
ProcessVideoAsyncEndpoint ==
    /\ handler = Free
    /\ \E k \in AppJobs : jpc[k] = "unborn"
    /\ LET job_id == NewJobId IN
        /\ video_jobs' = [video_jobs EXCEPT ![job_id] = [status |-> "queued", result |-> "none", error |-> "none"]]
        /\ jpc' = [jpc EXCEPT ![job_id] = "started"]
        /\ handler' = job_id
    /\ UNCHANGED <<fwVars, auxVars, moreVars>>
    /\ UNCHANGED <<jworker, jlocal, jresp, polled>>

\* process_video_async_endpoint returns {'status': 'accepted', 'job_id': ...}.
EndpointReturn ==
    /\ handler # Free
    /\ jresp' = [jresp EXCEPT ![handler] = TRUE]
    /\ handler' = Free
    /\ UNCHANGED <<fwVars, auxVars, moreVars>>
    /\ UNCHANGED <<video_jobs, jpc, jworker, jlocal, polled>>

\* What get_job_status puts in its answer for a registry entry.
JobStatusAnswer(j, job) ==
    [job |-> j, status |-> job.status,
     result |-> IF job.status = "complete" THEN job.result ELSE "none",
     error |-> IF job.status = "error"
               THEN (IF job.error = "none" THEN "Unknown error" ELSE job.error)
               ELSE "none"]

\* get_job_status for a job of the registry.
GetJobStatus(j) ==
    /\ handler = Free
    /\ video_jobs[j].status # "absent"
    /\ polled' = JobStatusAnswer(j, video_jobs[j])
    /\ UNCHANGED <<fwVars, auxVars, moreVars>>
    /\ UNCHANGED <<video_jobs, handler, jpc, jworker, jlocal, jresp>>

\* process_video_async, first statements of the try block.
SetProcessing(j) ==
    /\ jpc[j] = "started"
    /\ video_jobs' = [video_jobs EXCEPT ![j].status = "processing"]
    /\ jpc' = [jpc EXCEPT ![j] = "call"]
    /\ UNCHANGED <<fwVars, auxVars, moreVars>>
    /\ UNCHANGED <<handler, jworker, jlocal, jresp, polled>>

\* process_video_with_track -> TrackWrapper.process_video: a missing video raises
\* FileNotFoundError, otherwise track.py is started with Popen.
StartTrack(j) ==
    /\ jpc[j] = "call"
    /\ \E exists \in BOOLEAN :
        IF exists
        THEN /\ jworker' = [jworker EXCEPT ![j] = "running"]
             /\ jpc' = [jpc EXCEPT ![j] = "stream"]
             /\ jlocal' = jlocal
        ELSE /\ jlocal' = [jlocal EXCEPT ![j] = "Video not found"]
             /\ jpc' = [jpc EXCEPT ![j] = "except"]
             /\ jworker' = jworker
    /\ UNCHANGED <<fwVars, auxVars, moreVars>>
    /\ UNCHANGED <<video_jobs, handler, jresp, polled>>

\* track.py exits by itself with a return code.
TrackExit(j) ==
    /\ jworker[j] = "running"
    /\ \E code \in {0, 1} :
        jworker' = [jworker EXCEPT ![j] = IF code = 0 THEN "exit0" ELSE "exit1"]
    /\ UNCHANGED <<fwVars, auxVars, moreVars>>
    /\ UNCHANGED <<video_jobs, handler, jpc, jlocal, jresp, polled>>

\* track.py stops making progress: it will never exit by itself.
TrackHang(j) ==
    /\ jworker[j] = "running"
    /\ jworker' = [jworker EXCEPT ![j] = "hung"]
    /\ UNCHANGED <<fwVars, auxVars, moreVars>>
    /\ UNCHANGED <<video_jobs, handler, jpc, jlocal, jresp, polled>>

\* What _parse_output returns: frames, or status 'no_output' with no frames.
ParseOutputs == {"frames", "no_output"}

\* TrackWrapper.process_video after the output stream ended: process.wait(),
\* then RuntimeError for a non-zero return code, else the parsed output.
WaitReturns(j) ==
    /\ jpc[j] = "stream"
    /\ jworker[j] \in {"exit0", "exit1"}
    /\ IF jworker[j] = "exit1"
       THEN /\ jlocal' = [jlocal EXCEPT ![j] = "track.py failed"]
            /\ jpc' = [jpc EXCEPT ![j] = "except"]
       ELSE /\ \E res \in ParseOutputs : jlocal' = [jlocal EXCEPT ![j] = res]
            /\ jpc' = [jpc EXCEPT ![j] = "returned"]
    /\ UNCHANGED <<fwVars, auxVars, moreVars>>
    /\ UNCHANGED <<video_jobs, handler, jworker, jresp, polled>>

\* video_jobs[job_id]['status'] = 'complete'
SetComplete(j) ==
    /\ jpc[j] = "returned"
    /\ video_jobs' = [video_jobs EXCEPT ![j].status = "complete"]
    /\ jpc' = [jpc EXCEPT ![j] = "result"]
    /\ UNCHANGED <<fwVars, auxVars, moreVars>>
    /\ UNCHANGED <<handler, jworker, jlocal, jresp, polled>>

\* Variant of SetResult: a statement after status = 'complete' raises, so the
\* except block runs for a job already reported complete.
SetResultRaises(j) ==
    /\ jpc[j] = "result"
    /\ jlocal' = [jlocal EXCEPT ![j] = "raised after complete"]
    /\ jpc' = [jpc EXCEPT ![j] = "except"]
    /\ UNCHANGED <<fwVars, auxVars, moreVars>>
    /\ UNCHANGED <<video_jobs, handler, jworker, jresp, polled>>

\* video_jobs[job_id]['result'] = result, and the rest of the try block.
SetResult(j) ==
    /\ jpc[j] = "result"
    /\ video_jobs' = [video_jobs EXCEPT ![j].result = jlocal[j]]
    /\ jpc' = [jpc EXCEPT ![j] = "done"]
    /\ UNCHANGED <<fwVars, auxVars, moreVars>>
    /\ UNCHANGED <<handler, jworker, jlocal, jresp, polled>>

\* except Exception: video_jobs[job_id]['status'] = 'error'
SetError(j) ==
    /\ jpc[j] = "except"
    /\ video_jobs' = [video_jobs EXCEPT ![j].status = "error"]
    /\ jpc' = [jpc EXCEPT ![j] = "message"]
    /\ UNCHANGED <<fwVars, auxVars, moreVars>>
    /\ UNCHANGED <<handler, jworker, jlocal, jresp, polled>>

\* video_jobs[job_id]['error'] = str(e)
SetErrorMessage(j) ==
    /\ jpc[j] = "message"
    /\ video_jobs' = [video_jobs EXCEPT ![j].error = jlocal[j]]
    /\ jpc' = [jpc EXCEPT ![j] = "done"]
    /\ UNCHANGED <<fwVars, auxVars, moreVars>>
    /\ UNCHANGED <<handler, jworker, jlocal, jresp, polled>>

NextApp ==
    \/ ProcessVideoAsyncEndpoint
    \/ EndpointReturn
    \/ \E j \in AppJobs :
        \/ GetJobStatus(j)
        \/ SetProcessing(j)
        \/ StartTrack(j)
        \/ TrackExit(j)
        \/ TrackHang(j)
        \/ WaitReturns(j)
        \/ SetComplete(j)
        \/ SetResult(j)
        \/ SetError(j)
        \/ SetErrorMessage(j)

\* The single-run variables when no single run is being modelled.
InitAux == run = "idle" /\ stream = "idle" /\ parse = "idle" /\ person = "idle"

InitMore ==
    conv = "idle" /\ calc = "idle" /\ store = "idle" /\ ids = "idle" /\ safe = "idle"

Init == InitFW /\ InitApp /\ InitAux /\ InitMore

SpecFW == Init /\ [][NextFW]_vars

SpecApp == Init /\ [][NextApp]_vars

\* A step of job j's background thread.
ThreadStep(j) ==
    \/ SetProcessing(j)
    \/ StartTrack(j)
    \/ WaitReturns(j)
    \/ SetComplete(j)
    \/ SetResult(j)
    \/ SetError(j)
    \/ SetErrorMessage(j)

\* SpecApp with the scheduling the interpreter gives: a thread that can take a
\* step eventually takes it, and the handler eventually returns its answer.
FairSpecApp ==
    /\ SpecApp
    /\ WF_vars(EndpointReturn)
    /\ \A j \in AppJobs : WF_vars(ThreadStep(j))

---------------------------------------------------------------------------
\* One run of the orchestrator, with its inputs spelled out: pose_video with
\* process_video_subprocess ("fw"), and process_video_async with
\* TrackWrapper.process_video ("tw").

\* The substrings process_video_subprocess looks for in the captured stderr.
Markers == {"CUDA out of memory", "OutOfMemoryError", "Traceback"}

\* Variant of ErrorType: the 'Traceback' test is made before 'OutOfMemoryError'.
ErrorTypeTracebackFirst(stderr) ==
    IF "CUDA out of memory" \in stderr THEN "CUDA_OOM"
    ELSE IF "Traceback" \in stderr THEN "PYTHON_ERROR"
    ELSE IF "OutOfMemoryError" \in stderr THEN "OUT_OF_MEMORY"
    ELSE "SUBPROCESS_ERROR"

\* error_details['error_type'] for a non-zero exit, from the markers stderr holds.
ErrorType(stderr) ==
    IF "CUDA out of memory" \in stderr THEN "CUDA_OOM"
    ELSE IF "OutOfMemoryError" \in stderr THEN "OUT_OF_MEMORY"
    ELSE IF "Traceback" \in stderr THEN "PYTHON_ERROR"
    ELSE "SUBPROCESS_ERROR"

Arg(group, name) == [group |-> group, name |-> name]

\* The arguments process_video_subprocess gives track.py, in order.
FlaskCommand ==
    << Arg("hydra", "job.chdir=false"), Arg("hydra", "output_subdir=null"),
       Arg("hydra", "run.dir=."), Arg("video", "source") >>

\* The arguments TrackWrapper.process_video gives track.py, in order.
TrackCommand ==
    << Arg("video", "source"), Arg("video", "output_dir"), Arg("phalp", "end_frame"),
       Arg("hydra", "run.dir=."), Arg("hydra", "output_subdir=null") >>

InitRun ==
    \E impl \in {"fw", "tw"} : \E video \in {"missing", "empty", "ok"} :
        run = [impl |-> impl, video |-> video, stage |-> "validate", cmd |-> <<>>,
               spawned |-> 0, code |-> "none", stderr |-> {}, stdout |-> {},
               status |-> "none", kind |-> "none"]

\* os.path.exists(video_path): pose_video answers 400, TrackWrapper.process_video
\* raises FileNotFoundError, which process_video_async records as the error.
OrchValidate ==
    /\ run.stage = "validate"
    /\ IF run.video = "missing"
       THEN run' = [run EXCEPT !.stage = "done",
                               !.status = IF run.impl = "fw" THEN "rejected" ELSE "error",
                               !.kind = "Video not found"]
       ELSE run' = [run EXCEPT !.stage = "build"]
    /\ UNCHANGED <<fwVars, appVars, stream, parse, person, moreVars>>

\* cmd = [...]
OrchBuildCommand ==
    /\ run.stage = "build"
    /\ run' = [run EXCEPT !.stage = "spawn",
                          !.cmd = IF run.impl = "fw" THEN FlaskCommand ELSE TrackCommand]
    /\ UNCHANGED <<fwVars, appVars, stream, parse, person, moreVars>>

\* subprocess.run(...) / subprocess.Popen(...)
OrchSpawn ==
    /\ run.stage = "spawn"
    /\ run' = [run EXCEPT !.stage = "wait", !.spawned = run.spawned + 1]
    /\ UNCHANGED <<fwVars, appVars, stream, parse, person, moreVars>>

\* track.py exits. process_video_subprocess captures stdout and stderr apart;
\* TrackWrapper.process_video sends stderr into stdout (stderr=subprocess.STDOUT).
OrchWorkerEnds ==
    /\ run.stage = "wait"
    /\ \E code \in {"exit0", "exit1"} : \E err \in SUBSET Markers : \E out \in SUBSET Markers :
        run' = [run EXCEPT !.stage = "classify", !.code = code,
                           !.stderr = IF run.impl = "fw" THEN err ELSE {},
                           !.stdout = IF run.impl = "fw" THEN out ELSE out \cup err]
    /\ UNCHANGED <<fwVars, appVars, stream, parse, person, moreVars>>

\* subprocess.run raises TimeoutExpired after POSE_TIMEOUT_MS: the run is killed
\* and answered with 'Processing timeout'. Only process_video_subprocess has it.
OrchTimeout ==
    /\ run.stage = "wait"
    /\ run.impl = "fw"
    /\ run' = [run EXCEPT !.stage = "done", !.code = "timeout",
                          !.status = "error", !.kind = "Processing timeout"]
    /\ UNCHANGED <<fwVars, appVars, stream, parse, person, moreVars>>

\* What the run ends as once track.py has exited: (status, kind).
\* found: an output file was found; parses: parse_pkl_to_json did not raise.
Verdict(impl, code, stderr, found, parses) ==
    IF impl = "fw"
    THEN IF code # "exit0" THEN <<"error", ErrorType(stderr)>>
         ELSE IF ~found THEN <<"error", "No .pkl output file found">>
         ELSE IF ~parses THEN <<"error", "Failed to parse .pkl output">>
         ELSE <<"success", "frames">>
    ELSE IF code # "exit0" THEN <<"error", "track.py failed with return code">>
         ELSE IF ~found THEN <<"success", "no_output">>
         ELSE <<"success", "frames">>

\* The code after the wait, up to the answer or the registry entry.
OrchClassify ==
    /\ run.stage = "classify"
    /\ \E found \in BOOLEAN : \E parses \in BOOLEAN :
        LET v == Verdict(run.impl, run.code, run.stderr, found, parses) IN
        run' = [run EXCEPT !.stage = "done", !.status = v[1], !.kind = v[2]]
    /\ UNCHANGED <<fwVars, appVars, stream, parse, person, moreVars>>

NextOrch ==
    \/ OrchValidate
    \/ OrchBuildCommand
    \/ OrchSpawn
    \/ OrchWorkerEnds
    \/ OrchTimeout
    \/ OrchClassify

InitOrch ==
    InitFW /\ InitApp /\ stream = "idle" /\ parse = "idle" /\ person = "idle" /\ InitMore /\ InitRun

SpecOrch == InitOrch /\ [][NextOrch]_vars

---------------------------------------------------------------------------
\* The output of one track.py run and the log it is written to:
\* TrackWrapper.process_video with GET /logs/<job_id> of app.py ("tw"), and
\* process_video_subprocess ("fw").

\* The lines track.py may write, without their line ends; "" is a blank line.
Lines == {"Loading model", "Tracking", ""}

NoLogs == [code |-> "none", logs |-> <<>>, emitted |-> <<>>, status |-> "none"]

InitStream ==
    \E impl \in {"fw", "tw"} :
        stream = [impl |-> impl, worker |-> "running", emitted |-> <<>>, nread |-> 0,
                  log |-> <<>>, status |-> "processing", got |-> NoLogs]

\* track.py writes one more line to its output.
TrackWrites ==
    /\ stream.worker = "running"
    /\ Len(stream.emitted) < MaxLines
    /\ \E line \in Lines : stream' = [stream EXCEPT !.emitted = Append(stream.emitted, line)]
    /\ UNCHANGED <<fwVars, appVars, run, parse, person, moreVars>>

\* track.py exits: its output ends.
TrackEnds ==
    /\ stream.worker = "running"
    /\ stream' = [stream EXCEPT !.worker = "exited"]
    /\ UNCHANGED <<fwVars, appVars, run, parse, person, moreVars>>

\* log_msg(f"[TRACK.PY] {line}"): the entry appended to the job's log file.
LogEntry(line) == [tag |-> "[TRACK.PY]", text |-> line]

\* One turn of 'for line in process.stdout': the next line is read, stripped of
\* its line end, and written to the job's log file unless it is empty.
ReadLine ==
    /\ stream.impl = "tw"
    /\ stream.status = "processing"
    /\ stream.nread < Len(stream.emitted)
    /\ LET line == stream.emitted[stream.nread + 1] IN
        stream' = [stream EXCEPT !.nread = stream.nread + 1,
                                 !.log = IF line # "" THEN Append(stream.log, LogEntry(line))
                                         ELSE stream.log]
    /\ UNCHANGED <<fwVars, appVars, run, parse, person, moreVars>>

\* The loop meets the end of the output; process.wait() returns and the job
\* leaves 'processing'.
StreamEnd ==
    /\ stream.impl = "tw"
    /\ stream.status = "processing"
    /\ stream.worker = "exited"
    /\ stream.nread = Len(stream.emitted)
    /\ stream' = [stream EXCEPT !.status = "ended"]
    /\ UNCHANGED <<fwVars, appVars, run, parse, person, moreVars>>

\* subprocess.run(capture_output=True) returns once track.py has exited; only
\* then is the captured output written, to the service's logger.
RunReturns ==
    /\ stream.impl = "fw"
    /\ stream.status = "processing"
    /\ stream.worker = "exited"
    /\ stream' = [stream EXCEPT !.status = "ended", !.nread = Len(stream.emitted)]
    /\ UNCHANGED <<fwVars, appVars, run, parse, person, moreVars>>

\* GET /logs/<job_id>: the content of the job's log file. A run of
\* process_video_subprocess has no such file.
GetJobLogs ==
    /\ stream' = [stream EXCEPT !.got =
            IF stream.impl = "tw"
            THEN [code |-> "200", logs |-> stream.log, emitted |-> stream.emitted,
                  status |-> stream.status]
            ELSE [code |-> "404", logs |-> <<>>, emitted |-> stream.emitted,
                  status |-> stream.status]]
    /\ UNCHANGED <<fwVars, appVars, run, parse, person, moreVars>>

NextStream ==
    \/ TrackWrites
    \/ TrackEnds
    \/ ReadLine
    \/ StreamEnd
    \/ RunReturns
    \/ GetJobLogs

InitSpecStream ==
    InitFW /\ InitApp /\ run = "idle" /\ parse = "idle" /\ person = "idle" /\ InitMore /\ InitStream

SpecStream == InitSpecStream /\ [][NextStream]_vars

---------------------------------------------------------------------------
\* The parsers of track.py's output artifact: parse_pkl_to_json and its
\* helpers ("fw"), TrackWrapper._parse_output and its helpers ("tw").

\* The Python values a record of the artifact may hold. Numbers are counted in
\* tenths, so that int() and float() differ.
Number(type, tenths) == [type |-> type, tenths |-> tenths, items |-> <<>>, entries |-> <<>>]
List(items) == [type |-> "list", tenths |-> 0, items |-> items, entries |-> <<>>]
None == [type |-> "NoneType", tenths |-> 0, items |-> <<>>, entries |-> <<>>]
Dict(entries) == [type |-> "dict", tenths |-> 0, items |-> <<>>, entries |-> entries]

\* What an expression stands for when its evaluation raises.
Raises == [type |-> "raise", tenths |-> 0, items |-> <<>>, entries |-> <<>>]

IsNumber(x) == x.type \in {"int", "float"}

\* int(x): truncates a number, raises TypeError for None.
int(x) == IF IsNumber(x) THEN Number("int", (x.tenths \div 10) * 10) ELSE Raises

\* float(x)
float(x) == IF IsNumber(x) THEN Number("float", x.tenths) ELSE Raises

\* to_list(data): never raises.
to_list(data) ==
    IF data.type = "NoneType" THEN List(<<>>)
    ELSE IF data.type = "list" THEN data
    ELSE IF IsNumber(data) THEN List(<<data.tenths>>)
    ELSE List(<<>>)

\* The key names convert_person_to_json tries for each field, in its order.
TrackIdKeys == <<"track_id", "id", "person_id">>
ConfidenceKeys == <<"confidence", "score", "detection_confidence">>
TrackingConfidenceKeys == <<"tracking_confidence", "track_score">>
Keypoints3dKeys == <<"keypoints_3d", "joints_3d", "kp_3d">>
Keypoints2dKeys == <<"keypoints_2d", "joints_2d", "kp_2d">>
BboxKeys == <<"bbox", "bounding_box", "box">>
MeshVerticesKeys == <<"mesh_vertices", "vertices", "verts">>

\* No key of the list is in the record.
NoKey == ""

\* Variant of FirstKey: the last key of the list that the record has.
LastKey(keys, d) ==
    IF \E i \in DOMAIN keys : keys[i] \in DOMAIN d
    THEN keys[CHOOSE i \in DOMAIN keys :
                /\ keys[i] \in DOMAIN d
                /\ \A j \in DOMAIN keys : j > i => keys[j] \notin DOMAIN d]
    ELSE NoKey

\* for key in [...]: if key in person_data: ...; break
\* The key the loop stops at: the first key of the list that the record has.
FirstKey(keys, d) ==
    IF \E i \in DOMAIN keys : keys[i] \in DOMAIN d
    THEN keys[CHOOSE i \in DOMAIN keys :
                /\ keys[i] \in DOMAIN d
                /\ \A j \in DOMAIN keys : j < i => keys[j] \notin DOMAIN d]
    ELSE NoKey

\* Whether such a loop assigns its field of json_person, and the value it converts.
Present(keys, d) == FirstKey(keys, d) # NoKey
Value(keys, d) == d[FirstKey(keys, d)]

\* json_person as convert_person_to_json initialises it.
DefaultPerson ==
    [track_id |-> Number("int", 0),
     confidence |-> Number("float", 10),
     tracking_confidence |-> Number("float", 10),
     smpl |-> [betas |-> List(<<>>), body_pose |-> List(<<>>), global_orient |-> List(<<>>)],
     keypoints_3d |-> List(<<>>),
     keypoints_2d |-> List(<<>>),
     camera |-> [tx |-> Number("float", 0), ty |-> Number("float", 0), tz |-> Number("float", 50)],
     bbox |-> List(<<0, 0, 0, 0>>),
     mesh_vertices |-> List(<<>>)]

\* convert_person_to_json(person_data): whether it raises, and json_person if
\* not. The records given here hold no 'smpl' and no 'camera' entry, whose
\* fields therefore keep their initial values.
convert_person_to_json(person_data) ==
    IF person_data.type # "dict"
    THEN [raised |-> FALSE, json |-> DefaultPerson]
    ELSE LET d == person_data.entries
             track_id == IF Present(TrackIdKeys, d) THEN int(Value(TrackIdKeys, d))
                         ELSE DefaultPerson.track_id
             confidence == IF Present(ConfidenceKeys, d) THEN float(Value(ConfidenceKeys, d))
                           ELSE DefaultPerson.confidence
             tracking_confidence ==
                IF Present(TrackingConfidenceKeys, d)
                THEN float(Value(TrackingConfidenceKeys, d))
                ELSE DefaultPerson.tracking_confidence
         IN  IF Raises \in {track_id, confidence, tracking_confidence}
             THEN [raised |-> TRUE, json |-> DefaultPerson]
             ELSE [raised |-> FALSE,
                   json |-> [DefaultPerson EXCEPT
                        !.track_id = track_id,
                        !.confidence = confidence,
                        !.tracking_confidence = tracking_confidence,
                        !.keypoints_3d = IF Present(Keypoints3dKeys, d)
                                         THEN to_list(Value(Keypoints3dKeys, d)) ELSE @,
                        !.keypoints_2d = IF Present(Keypoints2dKeys, d)
                                         THEN to_list(Value(Keypoints2dKeys, d)) ELSE @,
                        !.bbox = IF Present(BboxKeys, d)
                                 THEN to_list(Value(BboxKeys, d)) ELSE @,
                        !.mesh_vertices = IF Present(MeshVerticesKeys, d)
                                          THEN to_list(Value(MeshVerticesKeys, d)) ELSE @]]

\* The arguments every call of self._build_frame_from_tracklet passes after self,
\* and the parameters its definition takes after self.
ArgsPassed == 3
ParamsTaken == 2

\* tracklet.get(key, default)
Get(tracklet, key, default) == IF key \in DOMAIN tracklet THEN tracklet[key] ELSE default

\* The body of TrackWrapper._build_frame_from_tracklet, for a dict.
BuildFrameFromTracklet(frame_idx, tracklet) ==
    [frameNumber |-> frame_idx,
     confidence |-> Get(tracklet.entries, "confidence", Number("float", 10)),
     personId |-> Get(tracklet.entries, "person_id", Number("int", 0)),
     vertices |-> Get(tracklet.entries, "vertices", List(<<>>))]

\* self._build_frame_from_tracklet(frame_idx, tracklet_data, key), as
\* _extract_mesh_from_phalp_output calls it: TypeError when the arguments are
\* not as many as the parameters.
CallBuildFrame(frame_idx, tracklet) ==
    IF ArgsPassed # ParamsTaken
    THEN [raised |-> TRUE, json |-> DefaultPerson]
    ELSE [raised |-> FALSE, json |-> BuildFrameFromTracklet(frame_idx, tracklet)]

\* All dicts with keys among keys and values among values.
DictsOver(keys, values) == UNION {[D -> values] : D \in SUBSET keys}

\* The person records given to convert_person_to_json.
PersonRecords ==
    {Dict(a @@ b @@ c) :
        a \in DictsOver({"track_id", "id", "person_id"},
                        {Number("int", 20), Number("float", 15), None}),
        b \in DictsOver({"confidence"}, {Number("float", 9), None}),
        c \in DictsOver({"keypoints_3d", "joints_3d", "kp_3d"},
                        {List(<<1>>), List(<<2>>), None})}
    \cup {None, List(<<>>)}

\* The tracklets given to _build_frame_from_tracklet.
Tracklets ==
    {Dict(d) : d \in DictsOver({"confidence", "person_id"},
                               {Number("int", 20), Number("float", 9), None})}

InitPerson ==
    \E impl \in {"fw", "tw"} :
        \E data \in IF impl = "fw" THEN PersonRecords ELSE Tracklets :
            person = [impl |-> impl, data |-> data, stage |-> "in",
                      raised |-> FALSE, json |-> DefaultPerson]

\* json_person = convert_person_to_json(person_data), in convert_frame_to_json.
ConvertPerson ==
    /\ person.impl = "fw"
    /\ person.stage = "in"
    /\ LET r == convert_person_to_json(person.data) IN
        person' = [person EXCEPT !.stage = "out", !.raised = r.raised, !.json = r.json]
    /\ UNCHANGED <<fwVars, appVars, run, stream, parse, moreVars>>

\* frame = self._build_frame_from_tracklet(...), in _extract_mesh_from_phalp_output.
BuildFrame ==
    /\ person.impl = "tw"
    /\ person.stage = "in"
    /\ LET r == CallBuildFrame(0, person.data) IN
        person' = [person EXCEPT !.stage = "out", !.raised = r.raised, !.json = r.json]
    /\ UNCHANGED <<fwVars, appVars, run, stream, parse, moreVars>>

NextPerson ==
    \/ ConvertPerson
    \/ BuildFrame

InitSpecPerson ==
    InitFW /\ InitApp /\ run = "idle" /\ stream = "idle" /\ parse = "idle" /\ InitMore /\ InitPerson

SpecPerson == InitSpecPerson /\ [][NextPerson]_vars

---------------------------------------------------------------------------
\* A whole output artifact: a list of frames, each a list of person records.
\* parse_pkl_to_json ("fw"), TrackWrapper._parse_output ("tw") and
\* parse_pickle_file of pickle_parser.py ("pp").

\* 'Assume 30 FPS'
FPS == 30

\* float(frame_idx) / 30.0, as a fraction.
Timestamp(frame_idx) == [num |-> frame_idx, den |-> FPS]

\* All sequences of at most n elements of S.
SeqsUpTo(S, n) == UNION {[1..k -> S] : k \in 0..n}

\* The person records of the artifacts: with a confidence, with a confidence
\* that is None, or without one.
ArtifactPersons == {Dict(d) : d \in DictsOver({"confidence"}, {Number("float", 9), None})}

Artifacts == SeqsUpTo(SeqsUpTo(ArtifactPersons, MaxPersons), MaxFrames)

RECURSIVE Flatten(_)
\* The elements of the sequences of a sequence, in order.
Flatten(seqs) == IF seqs = <<>> THEN <<>> ELSE Head(seqs) \o Flatten(Tail(seqs))

\* convert_frame_to_json(frame_idx, frame_data) for a frame that is a list of
\* persons: a person whose conversion raises is left out. Nothing raises
\* outside the per-person try block, so parse_pkl_to_json keeps every frame.
convert_frame_to_json(frame_idx, frame_data) ==
    LET converted == [i \in DOMAIN frame_data |-> convert_person_to_json(frame_data[i])]
        kept == SelectSeq(converted, LAMBDA r : ~r.raised)
    IN  [frame_number |-> frame_idx,
         timestamp |-> Timestamp(frame_idx),
         persons |-> [i \in DOMAIN kept |-> kept[i].json]]

\* parse_pkl_to_json(pkl_path) for an artifact that is a list of frames.
parse_pkl_to_json(phalp_output) ==
    LET json_frames ==
            [i \in DOMAIN phalp_output |-> convert_frame_to_json(i - 1, phalp_output[i])]
    IN  [total_frames |-> Len(json_frames), frames |-> json_frames]

\* _extract_mesh_from_phalp_output(data) for a dict whose values, taken in the
\* order of the sorted keys, are lists of person records: one frame is built per
\* person, and an exception of a call ends the function.
extract_mesh_from_phalp_output(data) ==
    LET tracklets == Flatten(data)
        built == [i \in DOMAIN tracklets |-> CallBuildFrame(i - 1, tracklets[i])]
    IN  IF \E i \in DOMAIN built : built[i].raised
        THEN [raised |-> TRUE, frames |-> <<>>]
        ELSE [raised |-> FALSE, frames |-> [i \in DOMAIN built |-> built[i].json]]

\* TrackWrapper._parse_output for one output file: an exception while the file
\* is converted is logged and the file is skipped ('continue').
parse_output(data) ==
    LET converted == extract_mesh_from_phalp_output(data) IN
    [frames |-> IF converted.raised THEN <<>> ELSE converted.frames,
     status |-> "complete"]

\* The same frame in the layout pickle_parser.py reads: parallel lists, with
\* one 'smpl' entry per person and the confidences of the first persons.
PhalpFrame(frame) ==
    LET with == SelectSeq(frame, LAMBDA p : "confidence" \in DOMAIN p.entries) IN
    [smpl |-> [i \in DOMAIN frame |-> "smpl"],
     conf |-> [i \in DOMAIN with |-> with[i].entries["confidence"]],
     tid |-> <<>>]

\* A frame pickle_parser.py can be given: the persons without a confidence
\* come after those with one.
IsPhalpFrame(frame) ==
    \A i, k \in DOMAIN frame :
        (i < k /\ "confidence" \in DOMAIN frame[k].entries)
            => "confidence" \in DOMAIN frame[i].entries

\* parse_frame(frame_data, frame_idx, smpl_faces): float(conf_list[person_idx])
\* is evaluated outside every try block of the function.
parse_frame(frame_data, frame_idx) ==
    LET num_people == Len(frame_data.smpl)
        person_obj(i) ==
            [personId |-> IF i <= Len(frame_data.tid) THEN frame_data.tid[i]
                          ELSE Number("int", 10 * (i - 1)),
             confidence |-> IF i <= Len(frame_data.conf) THEN float(frame_data.conf[i])
                            ELSE Number("float", 10),
             tracked |-> TRUE]
    IN  IF \E i \in 1..num_people : person_obj(i).confidence = Raises
        THEN [raised |-> TRUE, frame_obj |-> <<>>]
        ELSE [raised |-> FALSE,
              frame_obj |-> [frameNumber |-> frame_idx,
                             timestamp |-> Timestamp(frame_idx),
                             persons |-> [i \in 1..num_people |-> person_obj(i)]]]

\* parse_pickle_file(pkl_path) for a list of frames: a frame whose parse raises
\* is left out.
parse_pickle_file(data) ==
    LET parsed == [i \in DOMAIN data |-> parse_frame(data[i], i - 1)]
        kept == SelectSeq(parsed, LAMBDA r : ~r.raised)
    IN  [frames |-> [i \in DOMAIN kept |-> kept[i].frame_obj]]

InitParse ==
    \E impl \in {"fw", "tw", "pp"} : \E artifact \in Artifacts :
        /\ impl = "pp" => \A i \in DOMAIN artifact : IsPhalpFrame(artifact[i])
        /\ parse = [impl |-> impl, artifact |-> artifact, stage |-> "loaded",
                    frames |-> <<>>, failed |-> FALSE]

\* parsed_data = parse_pkl_to_json(pkl_path), in process_video_subprocess.
ParsePkl ==
    /\ parse.impl = "fw"
    /\ parse.stage = "loaded"
    /\ parse' = [parse EXCEPT !.stage = "parsed",
                              !.frames = parse_pkl_to_json(parse.artifact).frames]
    /\ UNCHANGED <<fwVars, appVars, run, stream, person, moreVars>>

\* result = self._parse_output(output_dir, video_path), in TrackWrapper.process_video.
ParseOutput ==
    /\ parse.impl = "tw"
    /\ parse.stage = "loaded"
    /\ parse' = [parse EXCEPT !.stage = "parsed",
                              !.frames = parse_output(parse.artifact).frames]
    /\ UNCHANGED <<fwVars, appVars, run, stream, person, moreVars>>

\* result = parse_pickle_file(pkl_path), in main of pickle_parser.py.
ParsePickleFile ==
    /\ parse.impl = "pp"
    /\ parse.stage = "loaded"
    /\ parse' = [parse EXCEPT !.stage = "parsed",
            !.frames = parse_pickle_file(
                [i \in DOMAIN parse.artifact |-> PhalpFrame(parse.artifact[i])]).frames]
    /\ UNCHANGED <<fwVars, appVars, run, stream, person, moreVars>>

NextParse ==
    \/ ParsePkl
    \/ ParseOutput
    \/ ParsePickleFile

InitSpecParse ==
    InitFW /\ InitApp /\ run = "idle" /\ stream = "idle" /\ person = "idle" /\ InitMore /\ InitParse

SpecParse == InitSpecParse /\ [][NextParse]_vars

---------------------------------------------------------------------------
\* One frame of an artifact and the frame record made of it, by
\* convert_frame_to_json ("fw"), _build_frame_from_tracklet ("tw") and
\* parse_frame of pickle_parser.py ("pp").

\* Frame rates of the source videos.
VideoFps == {24, 30, 60}

\* The metadata a frame dict can carry: its own frame number, its own timestamp
\* (a fraction of seconds), both or neither.
FrameMetadata(fps) ==
    {a @@ b :
        a \in DictsOver({"frame_number"}, 0..MaxFrames),
        b \in DictsOver({"timestamp"}, {[num |-> k, den |-> fps] : k \in 0..MaxFrames})}

\* convert_frame_to_json(frame_idx, frame_data) for a dict, as far as the frame
\* number and the timestamp go: both start from frame_idx and are overwritten
\* by the keys of the frame, each on its own.
convert_frame_metadata(frame_idx, frame_data) ==
    [frame_number |-> IF "frame_number" \in DOMAIN frame_data
                      THEN frame_data["frame_number"] ELSE frame_idx,
     timestamp |-> IF "timestamp" \in DOMAIN frame_data
                   THEN frame_data["timestamp"] ELSE Timestamp(frame_idx)]

\* 'frameNumber' and 'timestamp' of the frame _build_frame_from_tracklet builds.
build_frame_metadata(frame_idx, tracklet) ==
    [frameNumber |-> frame_idx,
     timestamp |-> Get(tracklet, "timestamp", Timestamp(frame_idx))]

InitFrame ==
    \E impl \in {"fw", "tw", "pp"} : \E fps \in VideoFps :
    \E frame_idx \in 0..MaxFrames : \E frame_data \in FrameMetadata(fps) :
        conv = [impl |-> impl, fps |-> fps, frame_idx |-> frame_idx,
                frame_data |-> frame_data, stage |-> "loaded", records |-> <<>>]

\* json_frame = convert_frame_to_json(frame_idx, frame_data), in parse_pkl_to_json.
ConvertFrame ==
    /\ conv.impl = "fw"
    /\ conv.stage = "loaded"
    /\ conv' = [conv EXCEPT !.stage = "converted",
            !.records = <<convert_frame_metadata(conv.frame_idx, conv.frame_data)>>]
    /\ UNCHANGED <<fwVars, appVars, auxVars, calc, store, ids, safe>>

\* frame = self._build_frame_from_tracklet(frame_idx, tracklet_data, key): the
\* call raises TypeError when the arguments are not as many as the parameters,
\* and then no frame is appended.
BuildFrameCall ==
    /\ conv.impl = "tw"
    /\ conv.stage = "loaded"
    /\ conv' = [conv EXCEPT !.stage = "converted",
            !.records = IF ArgsPassed # ParamsTaken THEN <<>>
                        ELSE <<build_frame_metadata(conv.frame_idx, conv.frame_data)>>]
    /\ UNCHANGED <<fwVars, appVars, auxVars, calc, store, ids, safe>>

\* frame_obj = parse_frame(frame_data, frame_idx, smpl_faces) for a frame dict
\* without persons: the keys of the frame are not read for the metadata.
ParseFrame ==
    /\ conv.impl = "pp"
    /\ conv.stage = "loaded"
    /\ LET parsed == parse_frame([smpl |-> <<>>, conf |-> <<>>, tid |-> <<>>], conv.frame_idx)
       IN  conv' = [conv EXCEPT !.stage = "converted",
                !.records = <<[frameNumber |-> parsed.frame_obj.frameNumber,
                               timestamp |-> parsed.frame_obj.timestamp]>>]
    /\ UNCHANGED <<fwVars, appVars, auxVars, calc, store, ids, safe>>

NextFrame ==
    \/ ConvertFrame
    \/ BuildFrameCall
    \/ ParseFrame

InitSpecFrame ==
    InitFW /\ InitApp /\ InitAux
    /\ calc = "idle" /\ store = "idle" /\ ids = "idle" /\ safe = "idle" /\ InitFrame

SpecFrame == InitSpecFrame /\ [][NextFrame]_vars

---------------------------------------------------------------------------
\* Geometry of hybrid_pose_detector.py and mesh_renderer.py. Numbers are exact
\* fractions [num, den] in lowest terms with den > 0; a division by zero gives
\* den = 0 (the inf or nan of the floating-point division).

Abs(n) == IF n < 0 THEN -n ELSE n

RECURSIVE Gcd(_, _)
Gcd(a, b) == IF b = 0 THEN a ELSE Gcd(b, a % b)

\* The fraction n/d in lowest terms.
Norm(n, d) ==
    IF d = 0 THEN [num |-> IF n > 0 THEN 1 ELSE IF n < 0 THEN -1 ELSE 0, den |-> 0]
    ELSE LET g == Gcd(Abs(n), Abs(d))
             sign == IF d < 0 THEN -1 ELSE 1
         IN  [num |-> sign * (n \div g), den |-> sign * (d \div g)]

Rat(n, d) == Norm(n, d)

\* a + b, a - b, a * b, a / b
RAdd(a, b) ==
    IF a.den = 0 THEN a ELSE IF b.den = 0 THEN b
    ELSE Norm(a.num * b.den + b.num * a.den, a.den * b.den)

RNeg(a) == [num |-> -a.num, den |-> a.den]

RSub(a, b) == RAdd(a, RNeg(b))

RMul(a, b) ==
    IF a.den = 0 THEN a ELSE IF b.den = 0 THEN b
    ELSE Norm(a.num * b.num, a.den * b.den)

RDiv(a, b) ==
    IF a.den = 0 THEN a ELSE IF b.den = 0 THEN Rat(0, 1)
    ELSE Norm(a.num * b.den, a.den * b.num)

\* a < b, for finite a and b
RLess(a, b) == a.num * b.den < b.num * a.den

\* np.maximum(a, b)
RMax(a, b) == IF RLess(a, b) THEN b ELSE a

\* The denominator of 1e-9.
EpsilonDen == 1000000000
Epsilon == Rat(1, EpsilonDen)

\* Variant of cam_crop_to_full: bs = b * cam_bbox[:, 0], without the 1e-9.
cam_crop_to_full_no_epsilon(cam_bbox, box_center, box_size, img_size, focal_length) ==
    LET w_2 == RDiv(img_size[1], Rat(2, 1))
        h_2 == RDiv(img_size[2], Rat(2, 1))
        bs == RMul(box_size, cam_bbox[1])
        tz == RDiv(RMul(Rat(2, 1), focal_length), bs)
        tx == RAdd(RDiv(RMul(Rat(2, 1), RSub(box_center[1], w_2)), bs), cam_bbox[2])
        ty == RAdd(RDiv(RMul(Rat(2, 1), RSub(box_center[2], h_2)), bs), cam_bbox[3])
    IN  <<tx, ty, tz>>

\* cam_crop_to_full(cam_bbox, box_center, box_size, img_size, focal_length),
\* for one detection.
cam_crop_to_full(cam_bbox, box_center, box_size, img_size, focal_length) ==
    LET w_2 == RDiv(img_size[1], Rat(2, 1))
        h_2 == RDiv(img_size[2], Rat(2, 1))
        bs == RAdd(RMul(box_size, cam_bbox[1]), Epsilon)
        tz == RDiv(RMul(Rat(2, 1), focal_length), bs)
        tx == RAdd(RDiv(RMul(Rat(2, 1), RSub(box_center[1], w_2)), bs), cam_bbox[2])
        ty == RAdd(RDiv(RMul(Rat(2, 1), RSub(box_center[2], h_2)), bs), cam_bbox[3])
    IN  <<tx, ty, tz>>

\* The inputs of cam_crop_to_full, in units that keep every intermediate value
\* within 32-bit integers: crop cameras [s, tx, ty], box centres, box sizes,
\* image sizes and focal lengths.
CamCrops == {<<s, Rat(tx, 1), Rat(ty, 1)>> : s \in {Rat(0, 1), Rat(1, 2)}, tx \in {0, 1}, ty \in {0, 1}}
BoxCenters == {<<Rat(cx, 1), Rat(cy, 1)>> : cx \in {0, 1}, cy \in {0, 1}}
BoxSizes == {Rat(1, 1), Rat(2, 1)}
ImgSizes == {<<Rat(w, 1), Rat(1, 1)>> : w \in {1, 2}}
FocalLengths == {Rat(1, 2), Rat(1, 1)}

\* Calls of one function on the same inputs.
MaxCalls == 2

InitCam ==
    \E cam_bbox \in CamCrops : \E box_center \in BoxCenters : \E box_size \in BoxSizes :
    \E img_size \in ImgSizes : \E focal_length \in FocalLengths :
        calc = [camCrop |-> cam_bbox, boxCenter |-> box_center, boxSize |-> box_size,
                imgSize |-> img_size, f |-> focal_length, out |-> <<>>]

\* pred_cam_t_full = cam_crop_to_full(pred_cam, box_center, box_size, img_size,
\* scaled_focal_length), in HybridPoseDetector.detect_pose.
CamCropToFull ==
    /\ Len(calc.out) < MaxCalls
    /\ calc' = [calc EXCEPT !.out = Append(@,
            cam_crop_to_full(calc.camCrop, calc.boxCenter, calc.boxSize, calc.imgSize, calc.f))]
    /\ UNCHANGED <<fwVars, appVars, auxVars, conv, store, ids, safe>>

NextCam == CamCropToFull

InitSpecCam ==
    InitFW /\ InitApp /\ InitAux
    /\ conv = "idle" /\ store = "idle" /\ ids = "idle" /\ safe = "idle" /\ InitCam

SpecCam == InitSpecCam /\ [][NextCam]_vars

---------------------------------------------------------------------------
\* The 180-degree rotation about the X axis: the matrix mesh_renderer.py gets
\* from trimesh.transformations.rotation_matrix(np.radians(180), [1, 0, 0])
\* ("matrix") and the negations of _project_vertices_to_2d ("negate").
\*
\* np.radians(180) is the double nearest to pi, so the matrix holds
\* cos = -1.0 and sin = 1.2246467991473532e-16, not 0. A coordinate is kept as
\* the sequence <<a0, a1, a2, ...>> of integer coefficients of
\* a0 + a1*sin + a2*sin^2 + ..., without trailing zeros, so that the arithmetic
\* on the matrix entries is exact.

\* The coefficient of sin^(k-1) in p.
Coef(p, k) == IF k <= Len(p) THEN p[k] ELSE 0

RECURSIVE Trim(_)
Trim(p) == IF p # <<>> /\ p[Len(p)] = 0 THEN Trim(SubSeq(p, 1, Len(p) - 1)) ELSE p

\* p + q, -p, p * sin, p * cos
PAdd(p, q) ==
    Trim([k \in 1..(IF Len(p) > Len(q) THEN Len(p) ELSE Len(q)) |-> Coef(p, k) + Coef(q, k)])

PNeg(p) == [k \in DOMAIN p |-> -p[k]]

TimesSin(p) == Trim(<<0>> \o p)

TimesCos(p) == PNeg(p)

\* mesh.apply_transform(rot) on one vertex: the rows of
\* [[1, 0, 0], [0, cos, -sin], [0, sin, cos]] times the vertex.
apply_transform(v) ==
    <<v[1],
      PAdd(TimesCos(v[2]), PNeg(TimesSin(v[3]))),
      PAdd(TimesSin(v[2]), TimesCos(v[3]))>>

\* 'Flip Y', 'Flip Z' of _project_vertices_to_2d, for a camera at the origin.
flip_y_z(v) == <<v[1], PNeg(v[2]), PNeg(v[3])>>

\* Vertices with integer coordinates.
Coordinates == {Trim(<<a>>) : a \in -1..1}
Vertices == Coordinates \X Coordinates \X Coordinates

InitMesh ==
    \E impl \in {"matrix", "negate"} : \E v \in Vertices :
        calc = [impl |-> impl, vertex |-> v, rotated |-> v, times |-> "none"]

\* The rotation is applied to the vertex as it is now.
Rotate ==
    /\ calc.times \in {"none", "once"}
    /\ calc' = [calc EXCEPT
            !.rotated = IF calc.impl = "matrix" THEN apply_transform(@) ELSE flip_y_z(@),
            !.times = IF @ = "none" THEN "once" ELSE "twice"]
    /\ UNCHANGED <<fwVars, appVars, auxVars, conv, store, ids, safe>>

NextMesh == Rotate

InitSpecMesh ==
    InitFW /\ InitApp /\ InitAux
    /\ conv = "idle" /\ store = "idle" /\ ids = "idle" /\ safe = "idle" /\ InitMesh

SpecMesh == InitSpecMesh /\ [][NextMesh]_vars

---------------------------------------------------------------------------
\* HybridPoseDetector._project_vertices_to_2d, for one vertex.

\* 'Clamp z to avoid division by zero': the 0.01 of np.maximum(z_cam, 0.01).
MinDepth == Rat(1, 100)

\* Variant of project_vertex: without z_cam = np.maximum(z_cam, 0.01).
project_vertex_unclamped(vertex, cam_t_full, focal_length, img_size) ==
    LET cx == RDiv(img_size[1], Rat(2, 1))
        cy == RDiv(img_size[2], Rat(2, 1))
        x_cam == RSub(vertex[1], cam_t_full[1])
        y_cam == RNeg(RSub(vertex[2], cam_t_full[2]))
        z_cam == RNeg(vertex[3])
    IN  [depth |-> z_cam,
         point |-> <<RAdd(RDiv(RMul(focal_length, x_cam), z_cam), cx),
                     RAdd(RDiv(RMul(focal_length, y_cam), z_cam), cy)>>]

\* The depth the vertex is divided by and the 2D point returned for it.
project_vertex(vertex, cam_t_full, focal_length, img_size) ==
    LET cx == RDiv(img_size[1], Rat(2, 1))
        cy == RDiv(img_size[2], Rat(2, 1))
        x_cam == RSub(vertex[1], cam_t_full[1])
        y_cam == RNeg(RSub(vertex[2], cam_t_full[2]))
        z_cam == RMax(RNeg(vertex[3]), MinDepth)
    IN  [depth |-> z_cam,
         point |-> <<RAdd(RDiv(RMul(focal_length, x_cam), z_cam), cx),
                     RAdd(RDiv(RMul(focal_length, y_cam), z_cam), cy)>>]

\* The inputs of the projection: vertices in front of, on and behind the
\* camera plane, camera translations, focal lengths and image sizes.
ProjVertices == {<<Rat(x, 1), Rat(y, 1), Rat(z, 1)>> : x \in -1..1, y \in -1..1, z \in -2..1}
CamTranslations == {<<Rat(tx, 1), Rat(ty, 1), Rat(tz, 1)>> : tx \in {0, 1}, ty \in {0, 1}, tz \in {1, 2}}
ProjFocalLengths == {Rat(1, 1), Rat(5000, 1)}
ProjImgSizes == {<<Rat(640, 1), Rat(480, 1)>>, <<Rat(1, 1), Rat(1, 1)>>}

InitProj ==
    \E vertex \in ProjVertices : \E cam_t_full \in CamTranslations :
    \E focal_length \in ProjFocalLengths : \E img_size \in ProjImgSizes :
        calc = [vertex |-> vertex, cam_t |-> cam_t_full, f |-> focal_length,
                imgSize |-> img_size, out |-> <<>>]

\* keypoints_2d = self._project_vertices_to_2d(vertices, cam_t_full, ...).
ProjectVertices ==
    /\ calc.out = <<>>
    /\ calc' = [calc EXCEPT !.out =
            <<project_vertex(calc.vertex, calc.cam_t, calc.f, calc.imgSize)>>]
    /\ UNCHANGED <<fwVars, appVars, auxVars, conv, store, ids, safe>>

NextProj == ProjectVertices

InitSpecProj ==
    InitFW /\ InitApp /\ InitAux
    /\ conv = "idle" /\ store = "idle" /\ ids = "idle" /\ safe = "idle" /\ InitProj

SpecProj == InitSpecProj /\ [][NextProj]_vars

---------------------------------------------------------------------------
\* The output locations across jobs: process_video_subprocess ("fw") searches
\* fixed directories, process_video_async ("app") gives every job a directory
\* of its own. Jobs are run one after the other.

\* The directories process_video_subprocess searches, taken as one location.
SharedOutputs == 0

\* Where the worker of a job leaves its artifact: the outputs directory of
\* track.py for the Flask wrapper, track_output_{job_id} for app.py (the job
\* ids are taken to be distinct, see C29).
OutputDir(impl, job) == IF impl = "fw" THEN SharedOutputs ELSE job

InitStore ==
    \E impl \in {"fw", "app"} :
        store = [impl |-> impl,
                 files |-> <<>>,    \* the artifacts on disk, oldest first
                 job |-> 0,         \* the job being run, 0 before the first
                 phase |-> "idle",
                 status |-> [j \in AppJobs |-> "none"],
                 result |-> [j \in AppJobs |-> <<>>]]  \* the writers of the artifacts parsed

\* A job is submitted and its worker is started.
StoreSubmit ==
    /\ store.phase = "idle"
    /\ store.job < MaxJobs
    /\ store' = [store EXCEPT !.job = @ + 1, !.phase = "running"]
    /\ UNCHANGED <<fwVars, appVars, auxVars, conv, calc, ids, safe>>

\* track.py writes its artifact; a file of the same name is replaced.
StoreWorkerWrites ==
    /\ store.phase = "running"
    /\ LET mine == [dir |-> OutputDir(store.impl, store.job), by |-> store.job] IN
        store' = [store EXCEPT
            !.files = Append(SelectSeq(@, LAMBDA f : f # mine), mine),
            !.phase = "written"]
    /\ UNCHANGED <<fwVars, appVars, auxVars, conv, calc, ids, safe>>

\* track.py exits, having written an artifact or not.
StoreWorkerEnds ==
    /\ store.phase \in {"running", "written"}
    /\ \E code \in {"exit0", "exit1"} : store' = [store EXCEPT !.phase = code]
    /\ UNCHANGED <<fwVars, appVars, auxVars, conv, calc, ids, safe>>

\* The artifacts found in a directory, oldest first.
Glob(files, dir) == SelectSeq(files, LAMBDA f : f.dir = dir)

\* process_video_subprocess after the run: a non-zero exit is an error; else
\* every .pkl under the searched directories is listed, none is an error, and
\* of several the most recently modified one is parsed.
StoreCollectFW ==
    /\ store.impl = "fw"
    /\ store.phase \in {"exit0", "exit1"}
    /\ LET pkl_files == Glob(store.files, SharedOutputs) IN
        IF store.phase = "exit1" \/ pkl_files = <<>>
        THEN store' = [store EXCEPT !.phase = "idle", !.status[store.job] = "error"]
        ELSE LET pkl_path == pkl_files[Len(pkl_files)] IN
             store' = [store EXCEPT !.phase = "idle",
                                    !.status[store.job] = "complete",
                                    !.result[store.job] = <<pkl_path.by>>]
    /\ UNCHANGED <<fwVars, appVars, auxVars, conv, calc, ids, safe>>

\* TrackWrapper.process_video after the run: a non-zero exit raises; else
\* _parse_output reads every file of the job's output directory.
StoreCollectTW ==
    /\ store.impl = "app"
    /\ store.phase \in {"exit0", "exit1"}
    /\ LET output_files == Glob(store.files, OutputDir("app", store.job)) IN
        IF store.phase = "exit1"
        THEN store' = [store EXCEPT !.phase = "idle", !.status[store.job] = "error"]
        ELSE store' = [store EXCEPT !.phase = "idle",
                                    !.status[store.job] = "complete",
                                    !.result[store.job] =
                                        [i \in DOMAIN output_files |-> output_files[i].by]]
    /\ UNCHANGED <<fwVars, appVars, auxVars, conv, calc, ids, safe>>

NextStore ==
    \/ StoreSubmit
    \/ StoreWorkerWrites
    \/ StoreWorkerEnds
    \/ StoreCollectFW
    \/ StoreCollectTW

InitSpecStore ==
    InitFW /\ InitApp /\ InitAux
    /\ conv = "idle" /\ calc = "idle" /\ ids = "idle" /\ safe = "idle" /\ InitStore

SpecStore == InitSpecStore /\ [][NextStore]_vars

---------------------------------------------------------------------------
\* Job ids: str(uuid.uuid4()) in pose_video and process_video_subprocess
\* ("fw"), str(uuid.uuid4())[:8] in process_video_async_endpoint ("app").
\* A uuid is kept as <<its first 8 characters, its other characters>>; uuid4 is
\* taken never to return the same value twice.

UuidHeads == 1..2
UuidTails == 1..3
Uuids == UuidHeads \X UuidTails

\* The part of a uuid no job id holds.
NoTail == 0

\* str(u)[:8]: the first 8 characters.
First8(u) == <<u[1], NoTail>>

InitIds ==
    \E impl \in {"fw", "app"} :
        ids = [impl |-> impl,
               drawn |-> {},                \* the values uuid4 has returned
               registry |-> [k \in {} |-> 0], \* job id -> the submission that owns the entry
               assigned |-> <<>>]           \* history: the job id of each submission

\* registry[job_id] = {...}: the entry is created, or replaced when the key exists.
Register(registry, job_id, n) ==
    [k \in DOMAIN registry \cup {job_id} |-> IF k = job_id THEN n ELSE registry[k]]

\* process_video_async_endpoint: job_id = str(uuid.uuid4())[:8], then
\* video_jobs[job_id] = {'status': 'queued', ...}.
SubmitAsync ==
    /\ ids.impl = "app"
    /\ Len(ids.assigned) < MaxJobs
    /\ \E u \in Uuids \ ids.drawn :
        LET job_id == First8(u) IN
        ids' = [ids EXCEPT !.drawn = @ \cup {u},
                           !.registry = Register(@, job_id, Len(ids.assigned) + 1),
                           !.assigned = Append(@, job_id)]
    /\ UNCHANGED <<fwVars, appVars, auxVars, conv, calc, store, safe>>

\* pose_video with the GPU busy: job_id = str(uuid.uuid4()), then
\* active_jobs[job_id] = {'status': 'queued', ...}.
SubmitQueued ==
    /\ ids.impl = "fw"
    /\ Len(ids.assigned) < MaxJobs
    /\ \E u \in Uuids \ ids.drawn :
        LET job_id == u IN
        ids' = [ids EXCEPT !.drawn = @ \cup {u},
                           !.registry = Register(@, job_id, Len(ids.assigned) + 1),
                           !.assigned = Append(@, job_id)]
    /\ UNCHANGED <<fwVars, appVars, auxVars, conv, calc, store, safe>>

\* process_video_subprocess called without a job id: it makes one with
\* str(uuid.uuid4()) and registers nothing.
RunWithoutJobId ==
    /\ ids.impl = "fw"
    /\ Cardinality(ids.drawn) < MaxJobs
    /\ \E u \in Uuids \ ids.drawn : ids' = [ids EXCEPT !.drawn = @ \cup {u}]
    /\ UNCHANGED <<fwVars, appVars, auxVars, conv, calc, store, safe>>

NextIds ==
    \/ SubmitAsync
    \/ SubmitQueued
    \/ RunWithoutJobId

InitSpecIds ==
    InitFW /\ InitApp /\ InitAux
    /\ conv = "idle" /\ calc = "idle" /\ store = "idle" /\ safe = "idle" /\ InitIds

SpecIds == InitSpecIds /\ [][NextIds]_vars

---------------------------------------------------------------------------
\* run_safe.py: the crash-recovery wrapper around 'python app.py'.

max_restarts == 5

\* The return codes of the child: a normal exit, a failure, a death by signal.
ChildCodes == {0, 1, -11}

InitSafe ==
    safe = [pc |-> "loop",
            restart_count |-> 0,
            returncodes |-> <<>>,   \* history: what run_app_subprocess returned
            status |-> "running"]   \* the wrapper's own exit status once it has exited

\* while restart_count < max_restarts: run_app_subprocess() starts the child
\* with subprocess.Popen and streams its output.
StartRun ==
    /\ safe.pc = "loop"
    /\ safe.restart_count < max_restarts
    /\ safe' = [safe EXCEPT !.pc = "child"]
    /\ UNCHANGED <<fwVars, appVars, auxVars, conv, calc, store, ids>>

\* subprocess.Popen raises: run_app_subprocess logs the exception and returns 1.
PopenRaises ==
    /\ safe.pc = "loop"
    /\ safe.restart_count < max_restarts
    /\ safe' = [safe EXCEPT !.pc = "returned", !.returncodes = Append(@, 1)]
    /\ UNCHANGED <<fwVars, appVars, auxVars, conv, calc, store, ids>>

\* The child ends: its output closes and process.wait() returns its code.
ChildExits ==
    /\ safe.pc = "child"
    /\ \E returncode \in ChildCodes :
        safe' = [safe EXCEPT !.pc = "returned", !.returncodes = Append(@, returncode)]
    /\ UNCHANGED <<fwVars, appVars, auxVars, conv, calc, store, ids>>

\* The code run_app_subprocess has just returned.
LastCode == safe.returncodes[Len(safe.returncodes)]

\* if returncode == 0: break; the script ends, with exit status 0.
ExitNormally ==
    /\ safe.pc = "returned"
    /\ LastCode = 0
    /\ safe' = [safe EXCEPT !.pc = "exited", !.status = "0"]
    /\ UNCHANGED <<fwVars, appVars, auxVars, conv, calc, store, ids>>

\* Variant of CountRestart: 'if restart_count <= max_restarts' before the sleep.
CountRestartSleepsAtLimit ==
    /\ safe.pc = "returned"
    /\ LastCode # 0
    /\ IF safe.restart_count + 1 <= max_restarts
       THEN safe' = [safe EXCEPT !.restart_count = @ + 1, !.pc = "sleeping"]
       ELSE safe' = [safe EXCEPT !.restart_count = @ + 1, !.pc = "exited", !.status = "1"]
    /\ UNCHANGED <<fwVars, appVars, auxVars, conv, calc, store, ids>>

\* restart_count += 1; below max_restarts the wrapper sleeps restart_delay
\* seconds, else it logs 'giving up' and calls sys.exit(1).
CountRestart ==
    /\ safe.pc = "returned"
    /\ LastCode # 0
    /\ IF safe.restart_count + 1 < max_restarts
       THEN safe' = [safe EXCEPT !.restart_count = @ + 1, !.pc = "sleeping"]
       ELSE safe' = [safe EXCEPT !.restart_count = @ + 1, !.pc = "exited", !.status = "1"]
    /\ UNCHANGED <<fwVars, appVars, auxVars, conv, calc, store, ids>>

\* time.sleep(restart_delay) returns and the loop goes round.
SleepEnds ==
    /\ safe.pc = "sleeping"
    /\ safe' = [safe EXCEPT !.pc = "loop"]
    /\ UNCHANGED <<fwVars, appVars, auxVars, conv, calc, store, ids>>

NextSafe ==
    \/ StartRun
    \/ PopenRaises
    \/ ChildExits
    \/ ExitNormally
    \/ CountRestart
    \/ SleepEnds

InitSpecSafe ==
    InitFW /\ InitApp /\ InitAux
    /\ conv = "idle" /\ calc = "idle" /\ store = "idle" /\ ids = "idle" /\ InitSafe

SpecSafe == InitSpecSafe /\ [][NextSafe]_vars

\* The steps the wrapper takes by itself.
WrapperStep == StartRun \/ PopenRaises \/ ExitNormally \/ CountRestart \/ SleepEnds

\* Every child run terminates, and the wrapper is scheduled.
FairSpecSafe == SpecSafe /\ WF_vars(ChildExits) /\ WF_vars(WrapperStep)

---------------------------------------------------------------------------
\* Properties

WorkersInFlightFW == {r \in Req : InFlight(worker[r])}
WorkersInFlightApp == {j \in AppJobs : InFlight(jworker[j])}
ProcessingFW == {j \in JobIds : active_jobs[j] = "processing"}
ProcessingApp == {j \in AppJobs : video_jobs[j].status = "processing"}

\* C1: at most one track.py run is in flight at any time, over both entry points.
C1_AtMostOneWorker ==
    Cardinality(WorkersInFlightFW) + Cardinality(WorkersInFlightApp) <= 1

\* The part of C1 the GPU-busy flag of POST /pose/video does enforce.
FW_AtMostOneWorker == Cardinality(WorkersInFlightFW) <= 1

\* C2: no registry ever holds two jobs whose status is 'processing'.
C2_AtMostOneProcessing ==
    /\ Cardinality(ProcessingFW) <= 1
    /\ Cardinality(ProcessingApp) <= 1

IsPrefix(s, t) == Len(s) <= Len(t) /\ s = SubSeq(t, 1, Len(s))

\* C3: queued jobs leave the queue in the order they were queued: the jobs
\* admitted so far are the first ones queued, the queue holds the rest in
\* order, and no job is 'processing' while a job queued before it is 'queued'.
C3_FifoAdmission ==
    /\ IsPrefix(admitOrder, queuedOrder)
    /\ request_queue = SubSeq(queuedOrder, Len(admitOrder) + 1, Len(queuedOrder))
    /\ \A i, k \in 1..Len(queuedOrder) :
        (i < k /\ active_jobs[queuedOrder[k]] = "processing")
            => active_jobs[queuedOrder[i]] # "queued"

\* Two queued jobs have been admitted, one after the other.
C3_Witness == Len(queuedOrder) >= 2 /\ Len(admitOrder) >= 2

\* No handler thread of POST /pose/video is between its first and last statement.
QuiescentFW == \A r \in Req : pc[r] \in {"start", "done"}

\* C4: every queued job is dispatched and gets to Complete or Error; so once
\* every handler has finished, no job of the registry is still 'queued' or
\* 'processing'.
C4_QueuedJobsAreRun ==
    QuiescentFW => \A j \in JobIds : active_jobs[j] \notin {"queued", "processing"}

\* C5: freeing the GPU and handing it to the head of the queue is one step:
\* while nobody holds the lock, a free GPU means an empty queue.
C5_FreeImpliesEmptyQueue ==
    (subprocess_lock = Free /\ ~subprocess_running) => request_queue = <<>>

C7_AnsweredBeforeWorkerEnds ==
    \A r \in Req : worker[r] \in {"exited", "killed"} => resp[r] # "none"

Rank(status) ==
    CASE status = "absent" -> 0
      [] status = "queued" -> 1
      [] status = "processing" -> 2
      [] status \in {"complete", "error"} -> 3

FW_StatusMonotonic ==
    [][\A j \in JobIds :
        /\ active_jobs[j] = "queued" => active_jobs'[j] \in {"queued", "processing"}
        /\ active_jobs[j] = "processing" => active_jobs'[j] = "processing"
      ]_vars

C9_ExactlyOneOfResultError ==
    \A j \in AppJobs :
        /\ video_jobs[j].status = "complete"
            => (video_jobs[j].result # "none" /\ video_jobs[j].error = "none")
        /\ video_jobs[j].status = "error"
            => (video_jobs[j].error # "none" /\ video_jobs[j].result = "none")

\* C10: a track.py run that never exits is ended by a timeout, and its job
\* ends in error with no result.
C10_HungWorkerTimesOut ==
    \A j \in AppJobs :
        (jworker[j] = "hung")
            ~> (video_jobs[j].status = "error" /\ video_jobs[j].result = "none")

\* The timeout POST /pose/video does enforce: its handler never answers, and
\* never frees the GPU, while the run made for it is still in flight.
FW_TimeoutEndsRun ==
    \A r \in Req : pc[r] \in {"finally", "finlocked", "done"} => ~InFlight(worker[r])

\* What C11 calls the kinds process_video_subprocess assigns.
KindName(error_type) ==
    CASE error_type = "CUDA_OOM" -> "ResourceExhausted"
      [] error_type = "PYTHON_ERROR" -> "WorkerInternalError"
      [] error_type = "SUBPROCESS_ERROR" -> "WorkerUnknownError"
      [] OTHER -> error_type

C12_NoOutputEndsInError ==
    \A j \in AppJobs :
        (jworker[j] = "exit0" /\ jlocal[j] = "no_output") =>
            /\ video_jobs[j].status # "complete"
            /\ jpc[j] = "done" => video_jobs[j].status = "error"

\* C13: for a video file that is missing or zero bytes long track.py is never
\* started, and the run ends rejected.
C13_RejectedBeforeSpawn ==
    run.video \in {"missing", "empty"} =>
        /\ run.spawned = 0
        /\ run.stage = "done" => run.kind \in {"Video not found", "Empty input"}

\* The ways a job's run fails in process_video_async.
Failures == {"Video not found", "track.py failed", "no_output"}

\* C14: a job whose run failed ends with status error and the cause as its
\* error, and stays so.
C14_FailureIsTerminalError ==
    \A j \in AppJobs :
        (jpc[j] = "done" /\ jlocal[j] \in Failures) =>
            /\ video_jobs[j].status = "error"
            /\ video_jobs[j].error = jlocal[j]

\* C16: in the command line given to track.py every hydra.* override comes
\* before every video.* argument.
C16_HydraArgsFirst ==
    \A i, k \in DOMAIN run.cmd :
        (run.cmd[i].group = "hydra" /\ run.cmd[k].group = "video") => i < k

\* C15: a status query for a job id that a submission's answer carried is never
\* answered NotFound, and a query for an id no answer carried is.
C15_ReturnedIdIsRegistered ==
    \A j \in JobIds :
        /\ j \in returned_ids => PoseVideoStatus(j) = "200"
        /\ j \notin returned_ids => PoseVideoStatus(j) = "404"

\* The lines of track.py a log content holds, in order.
LoggedLines(logs) == [i \in DOMAIN logs |-> logs[i].text]

\* C17: a log retrieval made while the job is processing returns every line
\* track.py had written by then.
C17_LogsHoldEveryEmittedLine ==
    (stream.got.code # "none" /\ stream.got.status = "processing") =>
        LoggedLines(stream.got.logs) = stream.got.emitted

\* The record has none of the keys.
Lacks(d, keys) == \A i \in DOMAIN keys : keys[i] \notin DOMAIN d

\* C19: parsing a person record that lacks the confidence or the track id, and
\* holds no value that cannot be converted, does not raise and yields the
\* default for the field: confidence 1.0, track id 0.
C19_MissingKeyYieldsDefault ==
    (person.stage = "out" /\ person.data.type = "dict") =>
        LET d == person.data.entries IN
        (\A k \in DOMAIN d : d[k].type # "NoneType") =>
            /\ ~person.raised
            /\ Lacks(d, ConfidenceKeys) => person.json.confidence = Number("float", 10)
            /\ Lacks(d, TrackIdKeys) =>
                IF person.impl = "fw"
                THEN person.json.track_id = Number("int", 0)
                ELSE person.json.personId = Number("int", 0)

\* What C19 says, of convert_person_to_json alone.
FW_MissingKeyYieldsDefault == person.impl = "fw" => C19_MissingKeyYieldsDefault

\* C20: convert_person_to_json takes the track id from 'track_id', else from
\* 'id', else from 'person_id', and the 3D keypoints from 'keypoints_3d', else
\* from 'joints_3d', else from 'kp_3d'; a later key is ignored when an earlier
\* one is present; with none present the field keeps its default and the
\* record does not fail for it.
C20_FirstPresentKeyWins ==
    (person.impl = "fw" /\ person.stage = "out" /\ person.data.type = "dict") =>
        LET d == person.data.entries
            track_id == IF "track_id" \in DOMAIN d THEN int(d["track_id"])
                        ELSE IF "id" \in DOMAIN d THEN int(d["id"])
                        ELSE IF "person_id" \in DOMAIN d THEN int(d["person_id"])
                        ELSE Number("int", 0)
            confidence == IF "confidence" \in DOMAIN d THEN float(d["confidence"])
                          ELSE Number("float", 10)
            keypoints_3d == IF "keypoints_3d" \in DOMAIN d THEN to_list(d["keypoints_3d"])
                            ELSE IF "joints_3d" \in DOMAIN d THEN to_list(d["joints_3d"])
                            ELSE IF "kp_3d" \in DOMAIN d THEN to_list(d["kp_3d"])
                            ELSE List(<<>>)
        IN  /\ person.raised <=> (track_id = Raises \/ confidence = Raises)
            /\ ~person.raised =>
                /\ person.json.track_id = track_id
                /\ person.json.keypoints_3d = keypoints_3d

\* A record with 'track_id' 1.5 and 'id' 2, and with 'joints_3d' and 'kp_3d'
\* but no 'keypoints_3d', has been converted: track id 1, keypoints of 'joints_3d'.
C20_Witness ==
    /\ person.impl = "fw" /\ person.stage = "out" /\ person.data.type = "dict"
    /\ LET d == person.data.entries IN
        /\ DOMAIN d = {"track_id", "id", "joints_3d", "kp_3d"}
        /\ d["track_id"] = Number("float", 15) /\ d["id"] = Number("int", 20)
        /\ d["joints_3d"] = List(<<1>>) /\ d["kp_3d"] = List(<<2>>)
    /\ ~person.raised
    /\ person.json.track_id = Number("int", 10)
    /\ person.json.keypoints_3d = List(<<1>>)

\* The confidences of the person records a result holds, in order.
ResultConfidences(impl, frames) ==
    IF impl = "tw" THEN [i \in DOMAIN frames |-> frames[i].confidence]
    ELSE LET persons == Flatten([i \in DOMAIN frames |-> frames[i].persons]) IN
         [i \in DOMAIN persons |-> persons[i].confidence]

\* The confidences of the records of an artifact that can be parsed, in order:
\* those whose confidence is a number or is missing (then the default, 1.0).
ParseableConfidences(artifact) ==
    LET good == SelectSeq(Flatten(artifact),
                    LAMBDA p : \A k \in DOMAIN p.entries : IsNumber(p.entries[k]))
    IN  [i \in DOMAIN good |->
            IF "confidence" \in DOMAIN good[i].entries
            THEN good[i].entries["confidence"] ELSE Number("float", 10)]

\* C18: after the parse of an artifact the result holds every record that can
\* be parsed, in the artifact's order, whatever records were dropped, and the
\* parse has not failed.
C18_OtherRecordsKept ==
    parse.stage = "parsed" =>
        /\ ~parse.failed
        /\ SelectSeq(ResultConfidences(parse.impl, parse.frames), IsNumber)
            = ParseableConfidences(parse.artifact)

\* What C18 says, of parse_pkl_to_json alone.
FW_OtherRecordsKept == parse.impl = "fw" => C18_OtherRecordsKept

\* The frame numbers of the records of a result, in order.
FrameNumbers(impl, frames) ==
    [i \in DOMAIN frames |->
        IF impl = "fw" THEN frames[i].frame_number ELSE frames[i].frameNumber]

\* C21: the result parsed from an artifact of n frames holds exactly n frame
\* records, numbered 0..n-1 in order, for the Flask wrapper and the track wrapper.
C21_OneRecordPerFrame ==
    (parse.stage = "parsed" /\ parse.impl \in {"fw", "tw"}) =>
        FrameNumbers(parse.impl, parse.frames)
            = [i \in 1..Len(parse.artifact) |-> i - 1]

\* What C21 says, of parse_pkl_to_json alone.
FW_OneRecordPerFrame == parse.impl = "fw" => C21_OneRecordPerFrame

\* The frame number of a frame record.
FrameNumberOf(impl, record) ==
    IF impl = "fw" THEN record.frame_number ELSE record.frameNumber

\* C22: the timestamp of every frame record is its frame number divided by
\* the frame rate of the source video, whatever the rate and whether or not the
\* frame carried a frame number of its own.
C22_TimestampIsNumberOverFps ==
    \A i \in DOMAIN conv.records :
        conv.records[i].timestamp.num * conv.fps
            = FrameNumberOf(conv.impl, conv.records[i]) * conv.records[i].timestamp.den

\* What C22 says, of videos at 30 frames per second whose frames carry no
\* metadata.
C22_At30FpsWithoutMetadata ==
    (conv.fps = FPS /\ DOMAIN conv.frame_data = {}) => C22_TimestampIsNumberOverFps

\* The divisor the specification names: bs = b * s + 1e-9.
SpecBs == RAdd(RMul(calc.boxSize, calc.camCrop[1]), Epsilon)

\* The camera the specification names:
\* [2*(cx - w/2)/bs + tx, 2*(cy - h/2)/bs + ty, 2*f/bs].
SpecFullCam ==
    <<RAdd(RDiv(RMul(Rat(2, 1), RSub(calc.boxCenter[1], RDiv(calc.imgSize[1], Rat(2, 1)))),
                SpecBs), calc.camCrop[2]),
      RAdd(RDiv(RMul(Rat(2, 1), RSub(calc.boxCenter[2], RDiv(calc.imgSize[2], Rat(2, 1)))),
                SpecBs), calc.camCrop[3]),
      RDiv(RMul(Rat(2, 1), calc.f), SpecBs)>>

\* C23: every call of cam_crop_to_full returns the camera of the formula, so
\* calls on the same inputs return the same camera, and with s = 0 the divisor
\* is not zero and the three components are finite.
C23_CamCropToFullFormula ==
    \A i \in DOMAIN calc.out :
        /\ calc.out[i] = SpecFullCam
        /\ calc.camCrop[1] = Rat(0, 1) =>
            /\ SpecBs.num # 0
            /\ \A k \in 1..3 : calc.out[i][k].den # 0

\* Two calls were made with s = 0 and a box centre off the image centre.
C23_Witness ==
    /\ Len(calc.out) = MaxCalls
    /\ calc.camCrop[1] = Rat(0, 1)
    /\ calc.boxCenter[1] # RDiv(calc.imgSize[1], Rat(2, 1))
    /\ calc.out[1] = calc.out[2]

\* C24: a vertex rotated twice by 180 degrees about the X axis has exactly its
\* original coordinates.
C24_RotationTwiceIsIdentity ==
    calc.times = "twice" => calc.rotated = calc.vertex

\* What C24 says, of the negations of _project_vertices_to_2d alone.
C24_NegationTwiceIsIdentity ==
    calc.impl = "negate" => C24_RotationTwiceIsIdentity

\* The vertex lies at the camera translation: x = tx, y = ty, z = -tz.
AtCameraTranslation ==
    calc.vertex = <<calc.cam_t[1], calc.cam_t[2], RNeg(calc.cam_t[3])>>

\* C25: the depth every projected point is divided by is at least 0.01, hence
\* neither zero nor negative, and a vertex at the camera translation is
\* projected to the image centre (w/2, h/2).
C25_ProjectionClampedAndCentred ==
    \A i \in DOMAIN calc.out :
        /\ ~RLess(calc.out[i].depth, MinDepth)
        /\ calc.out[i].point[1].den # 0 /\ calc.out[i].point[2].den # 0
        /\ AtCameraTranslation =>
            calc.out[i].point = <<RDiv(calc.imgSize[1], Rat(2, 1)),
                                  RDiv(calc.imgSize[2], Rat(2, 1))>>

\* A vertex at the camera translation was projected.
C25_Witness == calc.out # <<>> /\ AtCameraTranslation

\* A vertex behind the camera plane was projected: the clamp set its depth.
C25_ClampWitness ==
    calc.out # <<>> /\ RLess(RNeg(calc.vertex[3]), MinDepth) /\ calc.out[1].depth = MinDepth

\* C26: the handler that holds the admission lock is inside one of the two
\* short critical sections, never at the run or the wait, and its own worker is
\* not in flight; a request that holds the lock while another request's worker
\* is in flight finds the GPU busy and can be queued at once.
C26_WaitOutsideCriticalSection ==
    \A r \in Req :
        subprocess_lock = r =>
            /\ pc[r] \in {"locked", "finlocked"}
            /\ ~InFlight(worker[r])
            /\ (pc[r] = "locked" /\ \E q \in Req : InFlight(worker[q]))
                => (subprocess_running /\ ENABLED QueueRequest(r))

\* A request was queued and answered while another request's worker is still
\* in flight, and a third holds the lock during that run.
C26_Witness ==
    \E r, q, s \in Req :
        /\ InFlight(worker[q])
        /\ resp[r] = "202" /\ pc[r] = "done"
        /\ subprocess_lock = s /\ pc[s] = "locked"

\* C27: the GPU-busy flag follows the running worker: it is set while a
\* handler is between admission and its finally block, whatever the outcome of
\* the run it is cleared once the handler is done, and while nobody holds the
\* lock it is not false when a job of the registry is 'processing'.
C27_BusyFlagTracksWorker ==
    /\ \A r \in Req : pc[r] \in {"process", "wait", "finally"} => subprocess_running
    /\ (subprocess_lock = Free /\ \A r \in Req : pc[r] \in {"start", "acquire", "done"})
            => ~subprocess_running
    /\ (subprocess_lock = Free /\ \E j \in JobIds : active_jobs[j] = "processing")
            => subprocess_running

\* The first two parts of C27: the flag is set from admission to the finally
\* block and cleared after every outcome.
FW_BusyFlagSetAndCleared ==
    /\ \A r \in Req : pc[r] \in {"process", "wait", "finally"} => subprocess_running
    /\ (subprocess_lock = Free /\ \A r \in Req : pc[r] \in {"start", "acquire", "done"})
            => ~subprocess_running

\* C28: every artifact a job's result was parsed from was written by the run
\* of that job.
C28_ResultFromOwnArtifact ==
    \A j \in AppJobs : \A i \in DOMAIN store.result[j] : store.result[j][i] = j

\* What C28 says, of process_video_async with its directory per job.
APP_ResultFromOwnArtifact == store.impl = "app" => C28_ResultFromOwnArtifact

\* C29: the job id of a submission differs from the id of every job already
\* in the registry, so that every submission still owns its own entry.
C29_JobIdsDistinct ==
    /\ \A i, k \in DOMAIN ids.assigned : i # k => ids.assigned[i] # ids.assigned[k]
    /\ \A i \in DOMAIN ids.assigned : ids.registry[ids.assigned[i]] = i

\* What C29 says, of the ids of pose_video alone.
FW_JobIdsDistinct == ids.impl = "fw" => C29_JobIdsDistinct

\* The runs made so far all failed.
AllRunsFailed == \A i \in DOMAIN safe.returncodes : safe.returncodes[i] # 0

\* C30, the part that holds in every state: at most max_restarts runs are
\* made; no run is made after a run that returned 0; the wrapper has exited
\* with status 0 exactly after a run that returned 0 and with status 1 exactly
\* after max_restarts failed runs, not sooner.
SafeRunsBounded ==
    /\ Len(safe.returncodes) <= max_restarts
    /\ \A i \in DOMAIN safe.returncodes :
        safe.returncodes[i] = 0 => i = Len(safe.returncodes)
    /\ safe.pc = "exited" =>
        \/ safe.status = "0" /\ safe.returncodes # <<>> /\ LastCode = 0
        \/ safe.status = "1" /\ Len(safe.returncodes) = max_restarts /\ AllRunsFailed
    /\ (safe.pc \in {"sleeping", "loop", "child"}) =>
        (AllRunsFailed /\ Len(safe.returncodes) < max_restarts)

\* C30: the wrapper makes at most 5 runs, stops at the first run that returns
\* 0, makes a new run after every other one, gives up with exit status 1
\* after the 5th failed run, and, every child run terminating, always exits.
C30_AtMostFiveRunsThenExit == []SafeRunsBounded /\ <>(safe.pc = "exited")

\* The wrapper gave up: 5 runs failed and it exited with status 1.
C30_Witness ==
    /\ safe.pc = "exited" /\ safe.status = "1"
    /\ Len(safe.returncodes) = max_restarts /\ AllRunsFailed
====
